---- MODULE Spec2Model ----
(***************************************************************************)
(* The Cognisphere backend: the transport layer of backend/app.py driving  *)
(* one process-wide SimulationEngine.                                       *)
(*                                                                         *)
(* One step of the model is one uninterrupted run of a coroutine between   *)
(* two suspension points of the asyncio event loop.  A handler that awaits *)
(* an engine operation which can suspend (initialize, stop) is split at    *)
(* that await; everything else in a handler is one step.                   *)
(*                                                                         *)
(* The operations of SimulationEngine (simulation/engine.py) follow the     *)
(* lifecycle state machine of the specification, sections 4.1, 4.3 and 5.  *)
(***************************************************************************)
EXTENDS Integers, Sequences, FiniteSets, Bags, TLC

\* ------------------------------------------------------------------ bounds
MaxEngines == 2      \* engine objects alive at the same time
MaxTasks == 2        \* run_simulation tasks alive at the same time
MaxReqs == 2         \* handlers suspended at an await at the same time
MaxTicks == 1        \* config.max_ticks of every engine
MaxPathLen == 2      \* longest path / name string of a request
MaxSnapshots == 1    \* snapshot records kept by one engine

\* --------------------------------------------------------------- constants
None == 0
Engines == 1..MaxEngines

SimulationState ==
  {"UNINITIALIZED", "READY", "RUNNING", "PAUSED", "STOPPED", "ERROR"}

\* LLMMode(value) accepts the members of the mode enum only.
LLMMode == {"mock", "live"}

\* Strings are sequences over an alphabet in which "a" stands for every
\* character the validators do not look at.
PathChars == {"a", ".", "/", "\\"}
NoneStr == <<"None">>

RECURSIVE StringsUpTo(_)
StringsUpTo(n) ==
  IF n = 0 THEN {<<>>}
  ELSE LET shorter == StringsUpTo(n - 1)
       IN  shorter \cup {Append(s, c) : s \in {x \in shorter : Len(x) = n - 1},
                                         c \in PathChars}

AllPaths == StringsUpTo(MaxPathLen)

\* v.startswith(p)
StartsWith(v, p) == Len(v) >= Len(p) /\ SubSeq(v, 1, Len(p)) = p

\* sub in v
Contains(v, sub) ==
  \E i \in 1..(Len(v) - Len(sub) + 1) : SubSeq(v, i, i + Len(sub) - 1) = sub

\* Python truthiness of an Optional[str]
Truthy(v) == v # NoneStr /\ v # <<>>

\* SimulationConfigRequest.validate_snapshot_directory: TRUE when v is accepted
validate_snapshot_directory(v) ==
  ~(Contains(v, <<".", ".">>) \/ StartsWith(v, <<"/">>))

\* SimulationConfigRequest.validate_stimuli_file: TRUE when v is accepted
validate_stimuli_file(v) ==
  ~(Truthy(v) /\ (Contains(v, <<".", ".">>) \/ StartsWith(v, <<"/">>)))

\* SnapshotRequest.validate_name: TRUE when v is accepted
validate_name(v) ==
  ~(Truthy(v) /\ (Contains(v, <<".", ".">>) \/ Contains(v, <<"/">>)
                    \/ Contains(v, <<"\\">>)))

\* The request model accepts the body (pydantic runs the field validators
\* before the handler is entered).
SimulationConfigRequest(req) ==
  /\ validate_snapshot_directory(req.snapshot_directory)
  /\ validate_stimuli_file(req.stimuli_file)

\* SimulationConfig(): the defaults the startup engine is built from
\* ("snapshots", no stimuli file, mock mode).
DefaultConfig ==
  [snapshot_directory |-> <<"a">>, stimuli_file |-> NoneStr, llm_mode |-> "mock"]

Request(d, s, m) ==
  [snapshot_directory |-> d, stimuli_file |-> s, llm_mode |-> m]

\* Requests of the lifecycle specification: one of each class the handler
\* tells apart (accepted, traversal, absolute, bad mode).
LifecycleRequests ==
  {Request(d, s, m) : d \in {<<"a">>, <<".", ".">>},
                      s \in {NoneStr, <<"/", "a">>},
                      m \in {"mock", "bogus"}}

\* Requests of the request-validation specification: every string in each
\* of the two path fields (the field validators are independent).
AllRequests ==
  {Request(d, NoneStr, m) : d \in AllPaths, m \in {"mock", "live", "bogus"}}
    \cup {Request(<<"a">>, s, m) : s \in AllPaths, m \in {"mock", "bogus"}}

VARIABLES
  simulation_engine,  \* the process-wide handle: None or an engine
  state,              \* engine -> SimulationState
  config,             \* engine -> the SimulationConfig it was built from
  world,              \* engine -> World (and subsystems) built
  tick,               \* engine -> world.current_tick
  snapshots,          \* engine -> sequence of snapshot metadata
  tasks,              \* bag of run_simulation tasks [eng, pc]
  reqs,               \* bag of handlers suspended at an await [op, eng]
  body,               \* the body of the initialize request the last step took
  resp,               \* the response the last step sent, if it sent one
  call,               \* the engine operation the last step invoked, if any
  environ,            \* os.environ: REQUIRE_AUTH and API_KEY as they are now
  API_KEY,            \* auth.API_KEY, bound when the module was imported
  REQUIRE_AUTH,       \* auth.REQUIRE_AUTH, bound when the module was imported
  credentials,        \* the bearer credential of the request at hand
  ret                 \* what the last call of an auth function returned

vars == <<simulation_engine, state, config, world, tick, snapshots,
          tasks, reqs, body, resp, call,
          environ, API_KEY, REQUIRE_AUTH, credentials, ret>>

engineVars == <<state, config, world, tick, snapshots>>

authVars == <<environ, API_KEY, REQUIRE_AUTH, credentials, ret>>

NoBody == Request(<<>>, NoneStr, "")

\* eng: the engine the handler finished on; pre: the handle it started with
\* (both None where the handler keeps neither).
NoResp == [op |-> "", code |-> 0, detail |-> "", eng |-> None, pre |-> None]
\* by: the handler; op: the engine operation; st: the state the engine was
\* in; arg: the string argument, if the operation takes one.
NoCall == [by |-> "", op |-> "", st |-> "", arg |-> <<>>]

ResponseOn(op, code, detail, e, pre) ==
  [op |-> op, code |-> code, detail |-> detail, eng |-> e, pre |-> pre]
Response(op, code, detail) == ResponseOn(op, code, detail, None, None)
Invoke(by, op, st, arg) == [by |-> by, op |-> op, st |-> st, arg |-> arg]

Task(e, pc) == [eng |-> e, pc |-> pc]
\* eng: the engine whose coroutine the handler awaits; pre: the handle the
\* handler started with.
Req(op, e, pre) == [op |-> op, eng |-> e, pre |-> pre]

One(x) == SetToBag({x})

\* Tasks of engine e that are inside the tick loop.
Looping(e) == CopiesIn(Task(e, "loop"), tasks)
\* Tasks of engine e that were created and have not finished.
InFlight(e) == CopiesIn(Task(e, "scheduled"), tasks) + Looping(e)

\* An engine object nothing refers to any more (garbage).
Referenced(e) ==
  \/ e = simulation_engine
  \/ \E t \in BagToSet(tasks) : t.eng = e
  \/ \E r \in BagToSet(reqs) : r.eng = e
FreeEngines == {e \in Engines : ~Referenced(e)}

\* The engine fields after a step that dropped a reference (a task or a
\* handler finished, the handle was replaced): st, cf, wd, tk, sn are the
\* fields as the step leaves them, and an engine object that nothing refers
\* to after the step is reclaimed.
Store(st, cf, wd, tk, sn) ==
  LET kept(e) == \/ e = simulation_engine'
                 \/ \E t \in BagToSet(tasks') : t.eng = e
                 \/ \E r \in BagToSet(reqs') : r.eng = e
  IN  /\ state' = [e \in Engines |-> IF kept(e) THEN st[e] ELSE "UNINITIALIZED"]
      /\ config' = [e \in Engines |-> IF kept(e) THEN cf[e] ELSE DefaultConfig]
      /\ world' = [e \in Engines |-> IF kept(e) THEN wd[e] ELSE FALSE]
      /\ tick' = [e \in Engines |-> IF kept(e) THEN tk[e] ELSE 0]
      /\ snapshots' = [e \in Engines |-> IF kept(e) THEN sn[e] ELSE <<>>]

\* ------------------------------------------------- SimulationEngine (4.1)
\* Each operation maps the state it is called in to [raised, state]: whether
\* it is rejected with InvalidTransitionError, and the state it leaves.
Outcome(raised, st) == [raised |-> raised, state |-> st]

\* RUNNING -> PAUSED; idempotent if already paused.
pause_simulation(st) ==
  IF st = "RUNNING" THEN Outcome(FALSE, "PAUSED")
  ELSE IF st = "PAUSED" THEN Outcome(FALSE, st)
  ELSE Outcome(TRUE, st)

\* PAUSED -> RUNNING; no-op if not paused.
resume_simulation(st) ==
  IF st = "PAUSED" THEN Outcome(FALSE, "RUNNING") ELSE Outcome(FALSE, st)

\* RUNNING|PAUSED -> STOPPED: signals cancellation; the caller then waits
\* for the tick loop to acknowledge (StopAcknowledged).
stop_simulation(st) ==
  IF st \in {"RUNNING", "PAUSED"} THEN Outcome(FALSE, "STOPPED")
  ELSE Outcome(TRUE, st)

\* The tick loop of engine e has exited: stop's wait is over.
StopAcknowledged(e) == Looping(e) = 0

\* READY|PAUSED -> one tick, synchronously, back to the prior state.
step_simulation(st) ==
  IF st \in {"READY", "PAUSED"} THEN Outcome(FALSE, st) ELSE Outcome(TRUE, st)

\* run_simulation on entry: READY -> RUNNING, rejected in any other state.
run_simulation(st) ==
  IF st = "READY" THEN Outcome(FALSE, "RUNNING") ELSE Outcome(TRUE, st)

\* initialize(): builds World and subsystems, -> READY; ERROR on failure.
InitOutcomes == {"ok", "false", "raise"}
initialize(outcome) == IF outcome = "ok" THEN "READY" ELSE "ERROR"

\* simulation_engine.scheduler is built with the World by initialize().
Scheduler(e) == world[e]

\* -------------------------------------------------------------- startup
\* startup_event: SimulationEngine(SimulationConfig()), not initialized; the
\* handle stays None when the construction raises.
startup_event ==
  /\ simulation_engine \in {None, 1}
  /\ state = [e \in Engines |-> "UNINITIALIZED"]
  /\ config = [e \in Engines |-> DefaultConfig]
  /\ world = [e \in Engines |-> FALSE]
  /\ tick = [e \in Engines |-> 0]
  /\ snapshots = [e \in Engines |-> <<>>]
  /\ tasks = EmptyBag
  /\ reqs = EmptyBag
  /\ body = NoBody
  /\ resp = NoResp
  /\ call = NoCall

\* The handler's own catch-all: `except Exception as e: raise
\* HTTPException(status_code=500, detail=str(e))` also catches the
\* HTTPException the handler raised itself.
CatchAll(code) == 500

\* `if not simulation_engine: raise HTTPException(400, ...)`, outside the try.
NotInitialized(op) ==
  /\ simulation_engine = None
  /\ resp' = Response(op, 400, "Simulation not initialized")
  /\ body' = NoBody
  /\ UNCHANGED authVars
  /\ call' = NoCall
  /\ UNCHANGED <<simulation_engine, engineVars, tasks, reqs>>

\* ------------------------------------------------ POST /simulation/control
\* `if simulation_engine.state == SimulationState.READY`
StartAllowed_NotRunning(e) == state[e] # "RUNNING"
StartAllowed(e) == state[e] = "READY"

\* action == "start"
ControlStart ==
  \/ NotInitialized("start")
  \/ /\ simulation_engine # None
     /\ IF StartAllowed(simulation_engine)
          THEN /\ BagCardinality(tasks) < MaxTasks
               /\ tasks' = tasks (+) One(Task(simulation_engine, "scheduled"))
               /\ resp' = Response("start", 200, "started")
          ELSE /\ resp' = Response("start", CatchAll(400), "Simulation not ready")
               /\ UNCHANGED tasks
     /\ body' = NoBody
     /\ UNCHANGED authVars
     /\ call' = NoCall
     /\ UNCHANGED <<simulation_engine, engineVars, reqs>>

\* action == "pause"
ControlPause ==
  \/ NotInitialized("pause")
  \/ /\ simulation_engine # None
     /\ LET e == simulation_engine
            r == pause_simulation(state[e])
        IN  /\ call' = Invoke("control", "pause_simulation", state[e], <<>>)
            /\ body' = NoBody
            /\ UNCHANGED authVars
            /\ state' = [state EXCEPT ![e] = r.state]
            /\ resp' = IF r.raised
                         THEN Response("pause", 500, "InvalidTransitionError")
                         ELSE Response("pause", 200, "paused")
     /\ UNCHANGED <<simulation_engine, config, world, tick, snapshots, tasks, reqs>>

\* action == "resume"
ControlResume ==
  \/ NotInitialized("resume")
  \/ /\ simulation_engine # None
     /\ LET e == simulation_engine
            r == resume_simulation(state[e])
        IN  /\ call' = Invoke("control", "resume_simulation", state[e], <<>>)
            /\ body' = NoBody
            /\ UNCHANGED authVars
            /\ state' = [state EXCEPT ![e] = r.state]
            /\ resp' = IF r.raised
                         THEN Response("resume", 500, "InvalidTransitionError")
                         ELSE Response("resume", 200, "resumed")
     /\ UNCHANGED <<simulation_engine, config, world, tick, snapshots, tasks, reqs>>

\* action == "stop", up to the await: stop_simulation is invoked and either
\* is rejected or signals cancellation and waits.
ControlStop ==
  \/ NotInitialized("stop")
  \/ /\ simulation_engine # None
     /\ LET e == simulation_engine
            r == stop_simulation(state[e])
        IN  /\ call' = Invoke("control", "stop_simulation", state[e], <<>>)
            /\ body' = NoBody
            /\ UNCHANGED authVars
            /\ state' = [state EXCEPT ![e] = r.state]
            /\ IF r.raised
                 THEN /\ resp' = Response("stop", 500, "InvalidTransitionError")
                      /\ UNCHANGED reqs
                 ELSE /\ BagCardinality(reqs) < MaxReqs
                      /\ reqs' = reqs (+) One(Req("stop", e, e))
                      /\ resp' = NoResp
     /\ UNCHANGED <<simulation_engine, config, world, tick, snapshots, tasks>>

\* `await simulation_engine.stop_simulation()` is over:
\* return {"status": "stopped"}.
ControlStopReturn(e) ==
  /\ BagIn(Req("stop", e, e), reqs)
  /\ StopAcknowledged(e)
  /\ reqs' = reqs (-) One(Req("stop", e, e))
  /\ resp' = ResponseOn("stop", 200, "stopped", e, e)
  /\ body' = NoBody
  /\ UNCHANGED authVars
  /\ call' = NoCall
  /\ UNCHANGED <<simulation_engine, tasks>>
  /\ Store(state, config, world, tick, snapshots)

\* action == "step": one tick, or a fault of that tick (-> ERROR).
ControlStep ==
  \/ NotInitialized("step")
  \/ /\ simulation_engine # None
     /\ LET e == simulation_engine
            r == step_simulation(state[e])
        IN  /\ call' = Invoke("control", "step_simulation", state[e], <<>>)
            /\ body' = NoBody
            /\ UNCHANGED authVars
            /\ \/ /\ r.raised
                  /\ resp' = Response("step", 500, "InvalidTransitionError")
                  /\ UNCHANGED <<state, tick>>
               \/ /\ ~r.raised
                  /\ tick[e] < MaxTicks
                  /\ tick' = [tick EXCEPT ![e] = @ + 1]
                  /\ resp' = Response("step", 200, "stepped")
                  /\ UNCHANGED state
               \/ /\ ~r.raised
                  /\ state' = [state EXCEPT ![e] = "ERROR"]
                  /\ resp' = Response("step", 500, "TickExecutionFault")
                  /\ UNCHANGED tick
     /\ UNCHANGED <<simulation_engine, config, world, snapshots, tasks, reqs>>

\* ------------------------------------------- the run_simulation task
\* The task created by start runs for the first time.
TaskBegin(e) ==
  /\ BagIn(Task(e, "scheduled"), tasks)
  /\ resp' = NoResp
  /\ body' = NoBody
  /\ UNCHANGED authVars
  /\ call' = NoCall
  /\ UNCHANGED <<simulation_engine, reqs>>
  /\ LET r == run_simulation(state[e])
     IN  /\ tasks' = IF r.raised
                       THEN tasks (-) One(Task(e, "scheduled"))
                       ELSE (tasks (-) One(Task(e, "scheduled")))
                              (+) One(Task(e, "loop"))
         /\ Store([state EXCEPT ![e] = r.state], config, world, tick, snapshots)

\* One tick of the loop; the loop is suspended while PAUSED.
TaskTick(e) ==
  /\ BagIn(Task(e, "loop"), tasks)
  /\ state[e] = "RUNNING"
  /\ tick[e] < MaxTicks
  /\ tick' = [tick EXCEPT ![e] = @ + 1]
  /\ resp' = NoResp
  /\ body' = NoBody
  /\ UNCHANGED authVars
  /\ call' = NoCall
  /\ UNCHANGED <<simulation_engine, state, config, world, snapshots, tasks, reqs>>

\* A fault inside a tick: -> ERROR, the loop halts.
TaskFault(e) ==
  /\ BagIn(Task(e, "loop"), tasks)
  /\ state[e] = "RUNNING"
  /\ tick[e] < MaxTicks
  /\ tasks' = tasks (-) One(Task(e, "loop"))
  /\ resp' = NoResp
  /\ body' = NoBody
  /\ UNCHANGED authVars
  /\ call' = NoCall
  /\ UNCHANGED <<simulation_engine, reqs>>
  /\ Store([state EXCEPT ![e] = "ERROR"], config, world, tick, snapshots)

\* The loop exits: the tick budget is used up (-> STOPPED), or the state is
\* no longer RUNNING or PAUSED (cancellation acknowledged).
TaskExit(e) ==
  /\ BagIn(Task(e, "loop"), tasks)
  /\ tasks' = tasks (-) One(Task(e, "loop"))
  /\ resp' = NoResp
  /\ body' = NoBody
  /\ UNCHANGED authVars
  /\ call' = NoCall
  /\ UNCHANGED <<simulation_engine, reqs>>
  /\ \/ /\ state[e] = "RUNNING"
        /\ tick[e] >= MaxTicks
        /\ Store([state EXCEPT ![e] = "STOPPED"], config, world, tick, snapshots)
     \/ /\ state[e] \notin {"RUNNING", "PAUSED"}
        /\ Store(state, config, world, tick, snapshots)

\* ---------------------------------------------- POST /simulation/initialize
\* SimulationEngine(sim_config): a new engine object, not yet initialized.
NewEngine == CHOOSE e \in FreeEngines : \A f \in FreeEngines : e <= f

\* `try: llm_mode = LLMMode(config.llm_mode)` does not raise ValueError.
LLMModeAccepted_NoCheck(m) == TRUE
LLMModeAccepted(m) == m \in LLMMode

\* The handler up to `await simulation_engine.initialize()`.
initialize_simulation(req) ==
  \/ /\ ~SimulationConfigRequest(req)
     /\ resp' = Response("initialize", 422, "validation error")
     /\ body' = req
     /\ UNCHANGED authVars
     /\ call' = NoCall
     /\ UNCHANGED <<simulation_engine, engineVars, tasks, reqs>>
  \/ /\ SimulationConfigRequest(req)
     /\ ~LLMModeAccepted(req.llm_mode)
     /\ resp' = Response("initialize", 400, "Invalid LLM mode")
     /\ body' = req
     /\ UNCHANGED authVars
     /\ call' = NoCall
     /\ UNCHANGED <<simulation_engine, engineVars, tasks, reqs>>
  \/ /\ SimulationConfigRequest(req)
     /\ LLMModeAccepted(req.llm_mode)
     /\ FreeEngines # {}
     /\ BagCardinality(reqs) < MaxReqs
     /\ resp' = NoResp
     /\ UNCHANGED tasks
     /\ LET e == NewEngine
        IN  /\ simulation_engine' = e
            /\ reqs' = reqs (+) One(Req("initialize", e, simulation_engine))
            /\ body' = req
            /\ UNCHANGED authVars
            /\ call' = Invoke("initialize", "initialize", "UNINITIALIZED", <<>>)
            /\ Store([state EXCEPT ![e] = "UNINITIALIZED"],
                     [config EXCEPT ![e] = req],
                     [world EXCEPT ![e] = FALSE],
                     [tick EXCEPT ![e] = 0],
                     [snapshots EXCEPT ![e] = <<>>])

\* engine.initialize() is over: a fresh World and READY, or ERROR.
Initialized(e, outcome) ==
  Store([state EXCEPT ![e] = initialize(outcome)],
        config,
        [world EXCEPT ![e] = IF outcome = "ok" THEN TRUE ELSE @],
        [tick EXCEPT ![e] = IF outcome = "ok" THEN 0 ELSE @],
        snapshots)

\* `success = await simulation_engine.initialize()` is over and the handler
\* answers.
InitializeReturn(r, outcome) ==
  /\ BagIn(r, reqs)
  /\ r.op = "initialize"
  /\ reqs' = reqs (-) One(r)
  /\ UNCHANGED <<simulation_engine, tasks>>
  /\ Initialized(r.eng, outcome)
  /\ resp' = CASE outcome = "ok" ->
                    ResponseOn("initialize", 200, "initialized", r.eng, r.pre)
               [] outcome = "false" ->
                    ResponseOn("initialize", 500,
                               "Failed to initialize simulation", r.eng, r.pre)
               [] OTHER ->
                    ResponseOn("initialize", 500, "Internal server error",
                               r.eng, r.pre)
  /\ body' = NoBody
  /\ UNCHANGED authVars
  /\ call' = NoCall

\* ------------------------------------------------------------ POST /reset
\* The handler up to `await simulation_engine.stop_simulation()`.
reset_simulation ==
  \/ NotInitialized("reset")
  \/ /\ simulation_engine # None
     /\ LET e == simulation_engine
            r == stop_simulation(state[e])
        IN  /\ call' = Invoke("reset", "stop_simulation", state[e], <<>>)
            /\ body' = NoBody
            /\ UNCHANGED authVars
            /\ state' = [state EXCEPT ![e] = r.state]
            /\ IF r.raised
                 THEN /\ resp' = ResponseOn("reset", 500,
                                            "InvalidTransitionError", e, e)
                      /\ UNCHANGED reqs
                 ELSE /\ BagCardinality(reqs) < MaxReqs
                      /\ reqs' = reqs (+) One(Req("reset_stop", e, e))
                      /\ resp' = NoResp
     /\ UNCHANGED <<simulation_engine, config, world, tick, snapshots, tasks>>

\* stop_simulation is over; `await simulation_engine.initialize()` reads the
\* global again and awaits initialize() of the engine it names now.
ResetReinitialize(r) ==
  /\ BagIn(r, reqs)
  /\ r.op = "reset_stop"
  /\ StopAcknowledged(r.eng)
  /\ reqs' = (reqs (-) One(r)) (+) One(Req("reset_init", simulation_engine, r.pre))
  /\ body' = NoBody
  /\ UNCHANGED authVars
  /\ call' = Invoke("reset", "initialize", state[simulation_engine], <<>>)
  /\ resp' = NoResp
  /\ UNCHANGED <<simulation_engine, tasks>>
  /\ Store(state, config, world, tick, snapshots)

\* initialize() is over and the handler answers.
ResetReturn(r, outcome) ==
  /\ BagIn(r, reqs)
  /\ r.op = "reset_init"
  /\ reqs' = reqs (-) One(r)
  /\ UNCHANGED <<simulation_engine, tasks>>
  /\ Initialized(r.eng, outcome)
  /\ resp' = CASE outcome = "ok" ->
                    ResponseOn("reset", 200, "reset_complete", r.eng, r.pre)
               [] outcome = "false" ->
                    ResponseOn("reset", CatchAll(500),
                               "Failed to reset simulation", r.eng, r.pre)
               [] OTHER ->
                    ResponseOn("reset", 500, "Internal server error",
                               r.eng, r.pre)
  /\ body' = NoBody
  /\ UNCHANGED authVars
  /\ call' = NoCall

\* ------------------------------------------------------------- queries
EngineQueries == {"agents", "culture", "economy", "network"}
QueryOps == {"status", "world", "performance", "history"} \cup EngineQueries

\* What the engine's own data queries return: the data, or a "not available"
\* result while the World is absent.
EngineData(e) == IF world[e] THEN "data" ELSE "not available"

\* GET /simulation/status, /agents, /culture, /economy, /network, /world,
\* /stats/performance, /stats/history
Query(q) ==
  /\ \/ /\ simulation_engine = None
        /\ resp' = IF q = "status"
                     THEN Response(q, 200, "not_initialized")
                     ELSE Response(q, 400, "Simulation not initialized")
        /\ body' = NoBody
        /\ UNCHANGED authVars
        /\ call' = NoCall
     \/ /\ simulation_engine # None
        /\ LET e == simulation_engine
           IN  /\ resp' =
                    CASE q = "status" -> Response(q, 200, state[e])
                      [] q \in EngineQueries -> Response(q, 200, EngineData(e))
                      [] q = "world" ->
                           IF world[e] THEN Response(q, 200, "data")
                           ELSE Response(q, 200, "World not initialized")
                      [] q = "performance" ->
                           IF Scheduler(e) THEN Response(q, 200, "data")
                           ELSE Response(q, 200, "Scheduler not initialized")
                      [] OTHER ->
                           IF world[e] /\ tick[e] > 0
                             THEN Response(q, 200, "data")
                             ELSE Response(q, 200, "empty history")
               /\ body' = NoBody
               /\ UNCHANGED authVars
               /\ call' = IF q \in EngineQueries \cup {"status"}
                            THEN Invoke("query", q, state[e], <<>>) ELSE NoCall
  /\ UNCHANGED <<simulation_engine, engineVars, tasks, reqs>>

\* ------------------------------------------------------------ snapshots
\* SnapshotStore (4.3): the path-safety rule of take and load.
SnapshotPathSafe(v) ==
  ~(Contains(v, <<".", ".">>) \/ Contains(v, <<"/">>) \/ Contains(v, <<"\\">>))

\* The name a snapshot is stored under: tick-<n>-<timestamp> when none is given.
SnapshotName(v) == IF Truthy(v) THEN v ELSE <<"tick">>

Snapshot(name, n) == [name |-> name, tick |-> n]

\* POST /snapshots
take_snapshot(name) ==
  \/ NotInitialized("take_snapshot")
  \/ /\ simulation_engine # None
     /\ ~validate_name(name)
     /\ resp' = Response("take_snapshot", 422, "validation error")
     /\ body' = NoBody
     /\ UNCHANGED authVars
     /\ call' = NoCall
     /\ UNCHANGED <<simulation_engine, engineVars, tasks, reqs>>
  \/ /\ simulation_engine # None
     /\ validate_name(name)
     /\ LET e == simulation_engine
        IN  /\ call' = Invoke("take_snapshot", "take_snapshot", state[e], name)
            /\ body' = NoBody
            /\ UNCHANGED authVars
            /\ \/ /\ world[e]
                  /\ SnapshotPathSafe(name)
                  /\ Len(snapshots[e]) < MaxSnapshots
                  /\ snapshots' = [snapshots EXCEPT
                                     ![e] = Append(@, Snapshot(SnapshotName(name), tick[e]))]
                  /\ resp' = Response("take_snapshot", 200, "snapshot_created")
               \/ /\ resp' = Response("take_snapshot", 500, "SnapshotIOError")
                  /\ UNCHANGED snapshots
     /\ UNCHANGED <<simulation_engine, state, config, world, tick, tasks, reqs>>

\* POST /snapshots/load: snapshot_file is a plain query parameter.
load_snapshot(snapshot_file) ==
  \/ NotInitialized("load_snapshot")
  \/ /\ simulation_engine # None
     /\ LET e == simulation_engine
            found == {i \in 1..Len(snapshots[e]) :
                        snapshots[e][i].name = snapshot_file}
        IN  /\ call' = Invoke("load_snapshot", "load_snapshot", state[e], snapshot_file)
            /\ body' = NoBody
            /\ UNCHANGED authVars
            /\ IF SnapshotPathSafe(snapshot_file) /\ found # {}
                 THEN /\ world' = [world EXCEPT ![e] = TRUE]
                      /\ tick' = [tick EXCEPT ![e] =
                                    snapshots[e][CHOOSE i \in found : TRUE].tick]
                      /\ resp' = Response("load_snapshot", 200, "snapshot_loaded")
                 ELSE /\ resp' = Response("load_snapshot", CatchAll(500),
                                          "Failed to load snapshot")
                      /\ UNCHANGED <<world, tick>>
     /\ UNCHANGED <<simulation_engine, state, config, snapshots, tasks, reqs>>

\* ---------------------------------------------------------------- auth.py
\* Environment values are strings (sequences of characters); NoneStr is a
\* variable that is not set.
TrueStr == <<"t", "r", "u", "e">>
FalseStr == <<"f", "a", "l", "s", "e">>

\* The values REQUIRE_AUTH takes in the environment: unset, empty, "false",
\* "true" and "TRUE".
RequireAuthValues == {NoneStr, <<>>, FalseStr, TrueStr, <<"T", "R", "U", "E">>}
\* The values API_KEY takes in the environment: unset, empty, one key.
ApiKeyValues == {NoneStr, <<>>, <<"k">>}
\* What HTTPBearer(auto_error=False) hands over: None, the key, another key.
Credentials == {NoneStr, <<"k">>, <<"w">>}

Environ(r, k) == [REQUIRE_AUTH |-> r, API_KEY |-> k]
Environs == {Environ(r, k) : r \in RequireAuthValues, k \in ApiKeyValues}

\* str.lower(), character by character
LowerChar(c) ==
  CASE c = "T" -> "t" [] c = "R" -> "r" [] c = "U" -> "u" [] c = "E" -> "e"
    [] OTHER -> c
lower(v) == [i \in 1..Len(v) |-> LowerChar(v[i])]

\* os.getenv(key, default) in environment env
getenv(env, key, default) == IF env[key] = NoneStr THEN default ELSE env[key]

NoRet ==
  [fn |-> "", code |-> 0, detail |-> "", authentication_required |-> FALSE,
   api_key_configured |-> FALSE, status |-> ""]

\* The module is imported in environment env:
\* API_KEY = os.getenv("API_KEY", None)
\* REQUIRE_AUTH = os.getenv("REQUIRE_AUTH", "false").lower() == "true"
Import(env) ==
  /\ environ = env
  /\ API_KEY = getenv(env, "API_KEY", NoneStr)
  /\ REQUIRE_AUTH = (lower(getenv(env, "REQUIRE_AUTH", FalseStr)) = TrueStr)
  /\ credentials = NoneStr
  /\ ret = NoRet

\* `if not API_KEY: return True` is not taken
KeyConfigured_NotNone(k) == k # NoneStr
KeyConfigured(k) == Truthy(k)

\* verify_api_key(credentials): True, or HTTPException(401, detail)
verify_api_key(c) ==
  LET answer(code, detail) ==
        [NoRet EXCEPT !.fn = "verify_api_key", !.code = code, !.detail = detail]
  IN  IF ~REQUIRE_AUTH THEN answer(200, "True")
      ELSE IF ~KeyConfigured(API_KEY) THEN answer(200, "True")
      ELSE IF c = NoneStr
        THEN answer(401, "Missing authentication credentials")
      ELSE IF c # API_KEY THEN answer(401, "Invalid API key")
      ELSE answer(200, "True")

\* "enabled" if REQUIRE_AUTH and API_KEY else "disabled"
StatusEnabled_RequiredOnly(r, k) == r
StatusEnabled(r, k) == r /\ Truthy(k)

\* get_auth_status()
get_auth_status ==
  [NoRet EXCEPT !.fn = "get_auth_status",
                !.code = 200,
                !.authentication_required = REQUIRE_AUTH,
                !.api_key_configured = (API_KEY # NoneStr),
                !.status = IF StatusEnabled(REQUIRE_AUTH, API_KEY)
                             THEN "enabled" ELSE "disabled"]

\* A step of the auth module or of its caller leaves the application alone.
AppIdle ==
  /\ body' = NoBody
  /\ resp' = NoResp
  /\ call' = NoCall
  /\ UNCHANGED <<simulation_engine, engineVars, tasks, reqs>>

\* patch.dict(os.environ, {...}): the environment changes after the import.
Setenv(r, k) ==
  /\ environ' = Environ(r, k)
  /\ ret' = NoRet
  /\ UNCHANGED <<API_KEY, REQUIRE_AUTH, credentials>>
  /\ AppIdle

\* await verify_api_key(c)
VerifyApiKey(c) ==
  /\ credentials' = c
  /\ ret' = verify_api_key(c)
  /\ UNCHANGED <<environ, API_KEY, REQUIRE_AUTH>>
  /\ AppIdle

\* get_auth_status()
GetAuthStatus ==
  /\ ret' = get_auth_status
  /\ UNCHANGED <<environ, API_KEY, REQUIRE_AUTH, credentials>>
  /\ AppIdle

\* A request arrives carrying bearer credential c (NoneStr: no Authorization
\* header); the route that handles it runs next.
Arrive(c) ==
  /\ credentials' = c
  /\ ret' = NoRet
  /\ UNCHANGED <<environ, API_KEY, REQUIRE_AUTH>>
  /\ AppIdle

\* --------------------------------------- handlers raising inside `try`
\* StimulusType (closed taxonomy): StimulusType(value) accepts its members.
StimulusType == {"news", "economic", "social"}
StimulusTypeValues == StimulusType \cup {"bogus"}

\* simulation_engine.stimuli_manager is built with the World by initialize().
StimuliManager(e) == world[e]

\* The agents get_agent_data knows, once the World is built.
AgentIds == {"agent_1", "agent_x"}
get_agent_data(e, agent_id) == world[e] /\ agent_id = "agent_1"

\* GET /agents/{agent_id}
get_agent(agent_id) ==
  \/ NotInitialized("get_agent")
  \/ /\ simulation_engine # None
     /\ resp' = IF get_agent_data(simulation_engine, agent_id)
                  THEN Response("get_agent", 200, "data")
                  ELSE Response("get_agent", CatchAll(404), "Agent not found")
     /\ body' = NoBody
     /\ UNCHANGED authVars
     /\ call' = Invoke("get_agent", "get_agent_data", state[simulation_engine], <<>>)
     /\ UNCHANGED <<simulation_engine, engineVars, tasks, reqs>>

\* GET /stimuli/status
get_stimuli_status ==
  /\ resp' = IF simulation_engine = None
               THEN Response("stimuli_status", CatchAll(404), "No active simulation")
               ELSE Response("stimuli_status", 200, "status")
  /\ body' = NoBody
  /\ UNCHANGED authVars
  /\ call' = IF simulation_engine = None THEN NoCall
             ELSE Invoke("stimuli_status", "get_environmental_stimuli_status",
                         state[simulation_engine], <<>>)
  /\ UNCHANGED <<simulation_engine, engineVars, tasks, reqs>>

\* GET /stimuli/by-type/{stimulus_type}
get_stimuli_by_type(stimulus_type) ==
  /\ resp' =
       IF simulation_engine = None \/ ~StimuliManager(simulation_engine)
         THEN Response("stimuli_by_type", CatchAll(404),
                       "No active simulation or stimuli manager")
       ELSE IF stimulus_type \notin StimulusType
         THEN Response("stimuli_by_type", CatchAll(400), "Invalid stimulus type")
       ELSE Response("stimuli_by_type", 200, "stimuli")
  /\ body' = NoBody
  /\ UNCHANGED authVars
  /\ call' = NoCall
  /\ UNCHANGED <<simulation_engine, engineVars, tasks, reqs>>

\* ------------------------------------------------------- specification
\* The process starts in an environment that sets neither REQUIRE_AUTH nor
\* API_KEY.
Init == startup_event /\ Import(Environ(NoneStr, NoneStr))

InitOps ==
  \/ \E r \in BagToSet(reqs), o \in InitOutcomes : InitializeReturn(r, o)
  \/ reset_simulation
  \/ \E r \in BagToSet(reqs) : ResetReinitialize(r)
  \/ \E r \in BagToSet(reqs), o \in InitOutcomes : ResetReturn(r, o)

control_simulation ==
  \/ ControlStart
  \/ ControlPause
  \/ ControlResume
  \/ ControlStop
  \/ \E e \in Engines : ControlStopReturn(e)
  \/ ControlStep

TickLoop ==
  \E e \in Engines : TaskBegin(e) \/ TaskTick(e) \/ TaskFault(e) \/ TaskExit(e)

Next ==
  \/ \E req \in LifecycleRequests : initialize_simulation(req)
  \/ InitOps
  \/ control_simulation
  \/ TickLoop
  \/ \E q \in QueryOps : Query(q)

Spec == Init /\ [][Next]_vars

\* Request validation of initialize: every string in the path fields, the
\* handlers one at a time, no background task.
NextReq ==
  \/ \E req \in AllRequests : reqs = EmptyBag /\ initialize_simulation(req)
  \/ \E r \in BagToSet(reqs), o \in InitOutcomes : InitializeReturn(r, o)
  \/ ControlStep

SpecReq == Init /\ [][NextReq]_vars

\* The snapshot endpoints: every string as a name, the handlers one at a
\* time, no background task.
NextSnap ==
  \/ \E req \in LifecycleRequests : reqs = EmptyBag /\ initialize_simulation(req)
  \/ \E r \in BagToSet(reqs), o \in InitOutcomes : InitializeReturn(r, o)
  \/ \E name \in AllPaths \cup {NoneStr} : take_snapshot(name)
  \/ \E snapshot_file \in AllPaths : load_snapshot(snapshot_file)
  \/ ControlStep

SpecSnap == Init /\ [][NextSnap]_vars

\* The auth module: the process starts in any environment, the environment
\* changes afterwards, and the auth functions are called.
InitAuth == startup_event /\ \E env \in Environs : Import(env)

NextAuth ==
  \/ \E r \in RequireAuthValues, k \in ApiKeyValues : Setenv(r, k)
  \/ \E c \in Credentials : VerifyApiKey(c)
  \/ GetAuthStatus

SpecAuth == InitAuth /\ [][NextAuth]_vars

\* The routes under authentication: the process starts in any environment,
\* and requests with and without a bearer credential reach the routes.
NextRoutes ==
  \/ \E c \in Credentials : Arrive(c)
  \/ \E req \in LifecycleRequests : reqs = EmptyBag /\ initialize_simulation(req)
  \/ \E r \in BagToSet(reqs) : InitializeReturn(r, "ok")
  \/ ControlStart
  \/ ControlStep

SpecRoutes == InitAuth /\ [][NextRoutes]_vars

\* The handlers that raise an HTTPException inside their own `try`, the
\* handlers one at a time, no background task.
NextErr ==
  \/ \E req \in LifecycleRequests : reqs = EmptyBag /\ initialize_simulation(req)
  \/ \E r \in BagToSet(reqs), o \in InitOutcomes : InitializeReturn(r, o)
  \/ ControlStart
  \/ ControlStep
  \/ \E agent_id \in AgentIds : get_agent(agent_id)
  \/ get_stimuli_status
  \/ \E stimulus_type \in StimulusTypeValues : get_stimuli_by_type(stimulus_type)

SpecErr == Init /\ [][NextErr]_vars

\* ================================================================ claims
AnyLooping == \E e \in Engines : Looping(e) > 0

\* C1: in every lifecycle state other than READY a start request fails,
\* launches no tick loop and leaves the lifecycle state of every engine and
\* the process-wide handle unchanged.
C1_StartRefusedOutsideReady ==
  [][(ControlStart /\ simulation_engine # None
        /\ state[simulation_engine] # "READY")
       => (/\ resp'.op = "start"
           /\ resp'.code >= 400
           /\ UNCHANGED <<tasks, state, simulation_engine>>)]_vars

\* C1 witness: start was just refused on a paused engine whose tick loop is
\* suspended, and still exactly that loop exists.
C1_Witness ==
  /\ resp.op = "start"
  /\ resp.code >= 400
  /\ simulation_engine # None
  /\ state[simulation_engine] = "PAUSED"
  /\ InFlight(simulation_engine) = 1

\* C2 (as claimed): at most one tick loop is in flight, whatever the
\* sequence and interleaving of control requests.
C2_AtMostOneTickLoopInFlight == BagCardinality(tasks) <= 1

\* C3 (as claimed): once initialize has returned, no tick loop of an engine
\* other than the current one is still executing.
C3_NoLoopOfPreviousEngine ==
  (resp.op = "initialize" /\ resp.code = 200)
    => \A e \in Engines : e # simulation_engine => Looping(e) = 0

\* The transitions the lifecycle state machine defines for the guarded
\* control actions.
TransitionDefined(op, st) ==
  CASE op = "pause_simulation" -> st \in {"RUNNING", "PAUSED"}
    [] op = "resume_simulation" -> st = "PAUSED"
    [] op = "stop_simulation" -> st \in {"RUNNING", "PAUSED"}
    [] op = "step_simulation" -> st \in {"READY", "PAUSED"}
    [] OTHER -> TRUE

\* C4 (as claimed): the control path invokes pause, resume, stop and step of
\* the engine only in a state for which the state machine defines the
\* transition.
C4_ControlGuardsByState ==
  call.by = "control" => TransitionDefined(call.op, call.st)

\* C5 (as claimed): when a stop request returns, every tick loop has exited,
\* so no tick is executed after it.
C5_NoLoopAfterStopReturns ==
  (resp.op = "stop" /\ resp.code = 200) => ~AnyLooping

\* The requests C6 is about: a path field the path check of the request
\* model refuses, or an llm_mode that is no member of the enum.
InvalidRequests ==
  {req \in LifecycleRequests \cup AllRequests :
     ~(SimulationConfigRequest(req) /\ req.llm_mode \in LLMMode)}

\* C6: an initialize request with an llm_mode outside the enum or a path
\* field the path check refuses is answered with an error and changes
\* neither the handle nor the lifecycle state of any engine.
C6_InvalidInitializeChangesNothing ==
  [][body' \in InvalidRequests
       => (/\ resp'.op = "initialize"
           /\ resp'.code \in {400, 422}
           /\ UNCHANGED <<simulation_engine, state>>)]_vars

\* C6 witness: an invalid initialize was just refused while the current
\* engine is running its tick loop.
C6_Witness ==
  /\ body \in InvalidRequests
  /\ resp.op = "initialize"
  /\ resp.code \in {400, 422}
  /\ simulation_engine # None
  /\ state[simulation_engine] = "RUNNING"
  /\ Looping(simulation_engine) = 1

\* C7 (as claimed): after a successful reset the handle is the engine the
\* reset started with, that engine is the one that was re-initialized, it
\* is READY, and no tick loop is still running.
C7_ResetSameEngineReady ==
  (resp.op = "reset" /\ resp.code = 200)
    => /\ simulation_engine = resp.pre
       /\ resp.eng = resp.pre
       /\ state[simulation_engine] = "READY"
       /\ ~AnyLooping

\* The path-safety rule of the claims: `..`, a leading `/`, or `\`.
Unsafe(v) ==
  /\ v # NoneStr
  /\ \/ Contains(v, <<".", ".">>)
     \/ StartsWith(v, <<"/">>)
     \/ Contains(v, <<"\\">>)

\* C8 (as claimed): no snapshot directory, stimuli file or snapshot name
\* that is unsafe is ever passed to the engine.
C8_UnsafePathNeverReachesEngine ==
  /\ \A e \in Engines :
       ~Unsafe(config[e].snapshot_directory) /\ ~Unsafe(config[e].stimuli_file)
  /\ call.op = "take_snapshot" => ~Unsafe(call.arg)

\* C9 (as claimed): the load operation of the engine is invoked only with a
\* name that passes the rule take_snapshot's request applies.
C9_LoadValidatedLikeTake ==
  call.op = "load_snapshot" => validate_name(call.arg)

\* C10 (as claimed): a query changes neither the handle nor the lifecycle
\* state, and with the engine or its World/Scheduler absent it answers with
\* a result, not with an error response.
C10_QueriesNeverFail ==
  [][\A q \in QueryOps :
       Query(q) =>
         /\ UNCHANGED <<simulation_engine, state>>
         /\ (simulation_engine = None \/ ~world[simulation_engine])
              => resp'.code = 200]_vars

\* C11: verify_api_key returns True exactly when authentication is not
\* required, or no API key is configured, or the credential equals the key;
\* otherwise it raises 401, "Missing authentication credentials" without
\* credentials and "Invalid API key" with a different credential.
C11_VerifyGrantsExactlyWhenEntitled ==
  ret.fn = "verify_api_key" =>
    LET granted == \/ ~REQUIRE_AUTH
                   \/ API_KEY \in {NoneStr, <<>>}
                   \/ credentials = API_KEY
    IN  /\ granted => ret.code = 200
        /\ (~granted /\ credentials = NoneStr)
             => (ret.code = 401
                 /\ ret.detail = "Missing authentication credentials")
        /\ (~granted /\ credentials # NoneStr)
             => (ret.code = 401 /\ ret.detail = "Invalid API key")

\* C11 witness: with authentication required and a key configured, a call
\* with another key was just refused.
C11_Witness ==
  /\ ret.fn = "verify_api_key"
  /\ REQUIRE_AUTH
  /\ API_KEY = <<"k">>
  /\ credentials = <<"w">>
  /\ ret.code = 401
  /\ ret.detail = "Invalid API key"

\* The environment says now: REQUIRE_AUTH=true and API_KEY=k.
EnvironEnabled == environ.REQUIRE_AUTH = TrueStr /\ environ.API_KEY = <<"k">>

\* C12 (as claimed): with the environment at the time of the call saying
\* REQUIRE_AUTH=true and API_KEY=k, get_auth_status reports
\* authentication_required, api_key_configured and "enabled", and
\* verify_api_key without credentials raises 401.
C12_DecidesByCurrentEnvironment ==
  EnvironEnabled =>
    /\ ret.fn = "get_auth_status"
         => (/\ ret.authentication_required
             /\ ret.api_key_configured
             /\ ret.status = "enabled")
    /\ (ret.fn = "verify_api_key" /\ credentials = NoneStr) => ret.code = 401

\* Authentication is enabled: REQUIRE_AUTH true and an API key configured.
AuthEnabled == REQUIRE_AUTH /\ Truthy(API_KEY)

\* A state-changing route handles the request at hand.
StateChangingRequest ==
  \/ \E req \in LifecycleRequests : initialize_simulation(req)
  \/ ControlStart
  \/ ControlStep

\* C13 (as claimed): with authentication enabled, a request to a
\* state-changing route that carries no valid bearer key is answered 401 and
\* changes neither the handle nor the lifecycle state of any engine.
C13_RoutesRequireApiKey ==
  [][(AuthEnabled /\ credentials # API_KEY /\ StateChangingRequest)
       => (/\ resp'.code = 401
           /\ UNCHANGED <<simulation_engine, state>>)]_vars

\* C14 (as claimed): the status a handler raises deliberately is the status
\* the client gets: 400 for start outside READY and for an unknown stimulus
\* type, 404 for a missing engine, stimuli manager or agent.
C14_DeliberateStatusDelivered ==
  /\ resp.detail \in {"Simulation not ready", "Invalid stimulus type"}
       => resp.code = 400
  /\ resp.detail \in {"No active simulation",
                      "No active simulation or stimuli manager",
                      "Agent not found"}
       => resp.code = 404

\* C15 (as claimed): when initialize() of the new engine returns failure or
\* raises, the handle still names the engine (resp.pre) that was current
\* before the request.
C15_FailedInitializeKeepsPreviousEngine ==
  (resp.op = "initialize" /\ resp.code = 500 /\ resp.pre # None)
    => simulation_engine = resp.pre

\* verify_api_key enforces credentials: a call without credentials is
\* refused with 401.
Enforces == verify_api_key(NoneStr).code = 401
\* verify_api_key lets every caller through.
LetsEveryoneThrough == \A c \in Credentials : verify_api_key(c).code = 200

\* C16: get_auth_status reports "enabled" if and only if verify_api_key
\* refuses a call without credentials with 401, and "disabled" exactly when
\* verify_api_key lets every caller through.
C16_StatusMatchesEnforcement ==
  ret.fn = "get_auth_status" =>
    /\ (ret.status = "enabled") <=> Enforces
    /\ (ret.status = "disabled") <=> LetsEveryoneThrough

\* C16 witness: get_auth_status just reported "enabled" with a key configured,
\* and verify_api_key refuses a call without credentials.
C16_Witness ==
  /\ ret.fn = "get_auth_status"
  /\ ret.status = "enabled"
  /\ Enforces
  /\ API_KEY = <<"k">>

====
